---- MODULE Spec2Model ----
(***************************************************************************)
(* Model of the HP/Agilent 6626A driver (power_supply.py, class            *)
(* PowerSupply) together with the GUI code that drives it from two         *)
(* threads (main.py): the Qt main thread, which runs the button handlers   *)
(* and calls the driver, and VoltageMonitorThread, the telemetry poller.   *)
(*                                                                         *)
(* Voltages and currents are integers in units of 0.01 V / 0.01 A.         *)
(* A driver call is split at the points where the thread can block: the    *)
(* acquisition of self.lock, each pyvisa call (write, query,               *)
(* open_resource) and the settle sleep of _send_command.                   *)
(***************************************************************************)
EXTENDS Integers, Sequences, FiniteSets, TLC

(* ------------------------------ bounds --------------------------------- *)

\* Number of driver calls / GUI handlers the main thread of the GUI starts
\* in one run.
MaxOps == 3
\* Number of driver calls a caller makes on a mock driver in one run.
MaxCalls == 4
\* Number of samples delivered to update_voltage_history for one channel.
MaxSamples == 101

(* ------------------------- program constants --------------------------- *)

\* power_supply.py:28-33, main.py:245: the channels of the supply.
NumChannels == 4
\* power_supply.py:139,147: bound of the identification retry loop.
MaxAttempts == 3
\* power_supply.py:160: longest text write_to_screen accepts.
MaxScreenText == 12
\* main.py:326: capacity of a channel's history.
HistoryLimit == 100

Channels == 1..NumChannels

(* ---------------------------- input domains ---------------------------- *)

Threads == {"main", "poller"}

\* Channel ids callers pass: a valid one and one outside 1..4.
ArgChannels == {1, 5}
\* Channels whose ON/OFF button is pressed.
ToggleChannels == {1, 2}
\* Setpoints callers pass (0.01 units): negative and 3.30.
ArgValues == {-100, 330}
\* Replies of the instrument to a query: a number (0.01 units) or text that
\* float() cannot parse.
Replies == [numeric : {TRUE}, val : {-2, 330}] \cup {[numeric |-> FALSE, val |-> 0]}
\* connect() arguments: two valid triples, and one with each parameter
\* empty / zero.
ConnectArgs == {<<"COM3", 9600, "5">>, <<"COM3", 9600, "7">>, <<"", 9600, "5">>,
                <<"COM3", 0, "5">>, <<"COM3", 9600, "">>}
\* Lengths of the texts passed to write_to_screen, and raw commands.
ArgTextLens == {0, 12, 13}
\* The text of length n passed to write_to_screen, as its characters: lower
\* case letters, upper case letters and digits in turn.
ScreenText(n) ==
    [i \in 1..n |-> CASE i % 3 = 1 -> "a" [] i % 3 = 2 -> "B" [] OTHER -> "1"]
ArgRaw == {"", "ID?"}
\* random.random() - 0.5, times 0.1, in 0.01 units: [-5, 5).
Jitter == {-5, 0, 4}

(* ------------------------------- state --------------------------------- *)

VARIABLES
    mock,           \* PowerSupply.mock (fixed at construction)
    connection,     \* PowerSupply.connection
    module_id,      \* PowerSupply.module_id, "unset" before the first connect
    instrument,     \* PowerSupply.instrument: "unset", "open" or "closed"
    channels,       \* PowerSupply.channels: channel -> enabled flag
    set_voltages,   \* PowerSupply.set_voltages: dict channel -> setpoint
    set_currents,   \* PowerSupply.set_currents: dict channel -> limit
    lock,           \* PowerSupply.lock (RLock): [owner, count]
    inFlight,       \* threads inside instrument.write / instrument.query
    pc,             \* per thread: position inside the current driver call
    cur,            \* per thread: the current (or last) driver call
    result,         \* per thread: outcome of the last driver call
    wire,           \* per thread: transport calls made by the current call
    loc,            \* locals of connect(): directive index, attempts, queries
    pre,            \* driver state when the main thread's call began
    opsDone,        \* calls and handlers started by the main thread
    hnd,            \* GUI handler running on the main thread
    buttonsEnabled, \* ON/OFF buttons enabled (set_on_off_buttons_enabled)
    btn,            \* check state of each ON/OFF button
    thrRunning,     \* QThread.isRunning() of voltage_monitor_thread
    running,        \* VoltageMonitorThread.running
    ppc,            \* position of VoltageMonitorThread.run
    pollCh,         \* loop variable "channel" of the sweep
    voltage,        \* local "voltage" of the sweep
    sweepOk,        \* channels whose two queries succeeded in this sweep
    sweepErr,       \* channels abandoned on a caught exception in this sweep
    sweepPub,       \* channels with a sample emitted in this sweep
    emitted,        \* sample the poller's latest step emitted, if any
    programmed,     \* history: per channel, the value of the last set_voltage
                    \* (.v) and set_current_limit (.i) call that succeeded
    given,          \* history: instrument_id passed to the latest connect call
    voltage_history,    \* PowerSupplyGUI.voltage_history, per channel
    current_history,    \* PowerSupplyGUI.current_history, per channel
    delivered       \* history: per channel, the number of samples delivered

driverVars == <<mock, connection, module_id, instrument, channels,
                set_voltages, set_currents>>
callVars == <<pc, cur, result, wire, loc, pre>>
guiVars == <<opsDone, hnd, buttonsEnabled, btn>>
pollVars == <<thrRunning, running, ppc, pollCh, voltage, sweepOk, sweepErr,
              sweepPub, emitted>>
histVars == <<voltage_history, current_history, delivered>>
vars == <<driverVars, lock, inFlight, callVars, guiVars, pollVars, programmed,
          given, histVars>>

(* --------------------------- error taxonomy ---------------------------- *)
(* A status names the exception a call ended with.  The three classes of   *)
(* power_supply.py:7-22 are told apart by ErrClass; PowerSupplyError       *)
(* instances are further told apart by their message.                      *)

RawErrors == {"AttributeError", "VisaIOError", "InvalidSession", "ValueError",
              "KeyError"}

ErrClass(status) ==
    CASE status = "ok" -> "none"
      [] status = "ChannelNotEnabled" -> "PowerSupplyChannelNotEnabledError"
      [] status = "Timeout" -> "PowerSupplyTimeoutError"
      [] status \in RawErrors -> "raw"
      [] OTHER -> "PowerSupplyError"

\* isinstance(e, PowerSupplyError): the base class or one of its subclasses.
IsPowerSupplyError(status) ==
    ErrClass(status) \in {"PowerSupplyError", "PowerSupplyChannelNotEnabledError",
                          "PowerSupplyTimeoutError"}

(* ------------------------------ calls ---------------------------------- *)

NoCall == [op |-> "none", ch |-> 0, val |-> 0, text |-> "", chars |-> <<>>,
           port |-> "", baud |-> 0, id |-> ""]

Call(op, ch, val) == [NoCall EXCEPT !.op = op, !.ch = ch, !.val = val]

\* Calls that send one framed set command through _send_command.
SetOps == {"set_voltage", "set_current_limit", "set_voltage_range",
           "set_current_range", "enable_output", "disable_output",
           "set_overvoltage_protection", "enable_overcurrent_protection",
           "disable_overcurrent_protection", "write_to_screen"}
\* Calls that may send one framed query through _query_command.
QueryOps == {"get_output_voltage", "get_output_current",
             "get_programmed_voltage", "get_programmed_current_limit",
             "_query_command"}
\* Read-only accessors.
AccessOps == {"get_num_enabled_channels", "is_channel_enabled"}

\* Calls whose body is itself inside "with self.lock" around the helper.
OuterLock(op) == op \notin {"write_to_screen", "_query_command", "connect"}

\* SCPI body of the command a call sends (power_supply.py:163-370).
Body(op) ==
    CASE op = "set_voltage" -> "VSET"
      [] op = "set_current_limit" -> "ISET"
      [] op = "set_voltage_range" -> "VRSET"
      [] op = "set_current_range" -> "IRSET"
      [] op = "enable_output" -> "OUT"
      [] op = "disable_output" -> "OUT"
      [] op = "set_overvoltage_protection" -> "OVSET"
      [] op = "enable_overcurrent_protection" -> "OCP ON"
      [] op = "disable_overcurrent_protection" -> "OCP OFF"
      [] op = "write_to_screen" -> "DSP"
      [] op = "get_output_voltage" -> "VOUT?"
      [] op = "get_output_current" -> "IOUT?"
      [] op = "get_programmed_voltage" -> "VSET?"
      [] op = "get_programmed_current_limit" -> "ISET?"
      [] OTHER -> "ID?"

\* The value a set command carries after the channel.
BodyValueAlwaysOn(c) ==
    IF c.op \in {"enable_output", "disable_output"} THEN 1 ELSE c.val
BodyValue(c) ==
    CASE c.op = "enable_output" -> 1
      [] c.op = "disable_output" -> 0
      [] OTHER -> c.val

\* A transport call: what was handed to pyvisa.
\* (chars: the characters of the text a DSP command carries.)
TCall(kind, framed, module, body, ch, val, text) ==
    [kind |-> kind, framed |-> framed, module |-> module, body |-> body,
     ch |-> ch, val |-> val, text |-> text, chars |-> <<>>]

\* str.upper() (power_supply.py:162), character by character.
UpperChar(x) == CASE x = "a" -> "A" [] x = "b" -> "B" [] OTHER -> x
UpperSkipped(chars) == chars
Upper(chars) == [i \in DOMAIN chars |-> UpperChar(chars[i])]

FramedWithDefaultModule(kind, c) ==
    [TCall(kind, TRUE, "5", Body(c.op), c.ch, BodyValue(c), c.text)
        EXCEPT !.chars = IF c.op = "write_to_screen" THEN Upper(c.chars) ELSE <<>>]

\* full_command = f"OUTPUT {self.module_id}; {command}"
Framed(kind, c) ==
    [TCall(kind, TRUE, module_id, Body(c.op), c.ch, BodyValue(c), c.text)
        EXCEPT !.chars = IF c.op = "write_to_screen" THEN Upper(c.chars) ELSE <<>>]

\* The four bridge directives of connect, in program order.
Directives == <<"++auto 1", "++addr 5", "++eot_char 13", "++eot_enable 1">>

Unframed(kind, text) == TCall(kind, FALSE, "", "", 0, 0, text)

(* ------------------------------- lock ---------------------------------- *)

FreeLock == [owner |-> "none", count |-> 0]

\* threading.RLock: free, or already held by the same thread.
CanAcquireUnlocked(t) == TRUE
CanAcquire(t) == lock.owner \in {"none", t}

Acquired(t, n) == [owner |-> t, count |-> lock.count + n]

Released(n) ==
    IF lock.count - n <= 0 THEN FreeLock
    ELSE [lock EXCEPT !.count = lock.count - n]

\* Lock depth of a call while it is inside _send_command / _query_command.
Depth(op) == IF OuterLock(op) THEN 2 ELSE 1

(* ----------------------------- transport ------------------------------- *)
(* pyvisa is outside the repository: a call on it ends in one of the       *)
(* outcomes below, chosen by the environment.  A closed session refuses    *)
(* every call with InvalidSession, which is not a VisaIOError.             *)

WriteOutcomes == IF instrument = "open" THEN {"ok", "visa_io"} ELSE {"invalid_session"}

QueryOutcomes ==
    IF instrument = "open" THEN {"ok", "visa_timeout", "visa_io", "other"}
    ELSE {"invalid_session"}

\* The exception a failed instrument.write leaves the caller with: nothing
\* on the write paths catches it (power_supply.py:62, 397).
WriteError(outcome) == IF outcome = "visa_io" THEN "VisaIOError" ELSE "InvalidSession"

\* power_supply.py:81-87: the except clauses of _query_command.
QueryError(outcome) ==
    IF outcome \in {"visa_timeout", "visa_io"} THEN "Timeout" ELSE "CommFailed"

(* ------------------------- validation of a call ------------------------ *)
(* The checks each public method makes before it calls a helper, in the    *)
(* order of the code; "ok" when all pass.                                  *)

SetpointCheckNoConnection(c) == IF c.val < 0 THEN "CommFailed" ELSE "ok"

\* power_supply.py:191-194, 211-214
SetpointCheck(c) ==
    IF ~connection THEN "NotConnected"
    ELSE IF c.val < 0 THEN "CommFailed"
    ELSE "ok"

\* power_supply.py:250-253, 269-272
OutputCheck(c) ==
    IF ~connection THEN "NotConnected"
    ELSE IF c.ch \notin DOMAIN channels THEN "CommFailed"
    ELSE "ok"

\* power_supply.py:309-314, 331-338; notEnabled is the exception the method
\* raises for a channel that is off.
MeasureCheck(c, notEnabled) ==
    IF ~connection THEN "NotConnected"
    ELSE IF c.ch \notin DOMAIN channels THEN "CommFailed"
    ELSE IF ~channels[c.ch] THEN notEnabled
    ELSE "ok"

RawCheckConnectionOnly(c) == IF ~connection THEN "NotConnected" ELSE "ok"

\* power_supply.py:389-392
RawCheck(c) ==
    IF ~connection THEN "NotConnected"
    ELSE IF c.text = "" THEN "CommandEmpty"
    ELSE "ok"

Precheck(c) ==
    CASE c.op \in {"set_voltage", "set_current_limit"} -> SetpointCheck(c)
      [] c.op \in {"enable_output", "disable_output"} -> OutputCheck(c)
      [] c.op = "get_output_voltage" -> MeasureCheck(c, "ChannelNotOn")
      [] c.op = "get_output_current" -> MeasureCheck(c, "ChannelNotEnabled")
      [] c.op = "write_to_screen" ->
            IF Len(c.chars) > MaxScreenText THEN "TextTooLong" ELSE "ok"
      [] c.op = "send_raw_command" -> RawCheck(c)
      [] c.op = "disconnect" -> IF ~connection THEN "DisconnectFailed" ELSE "ok"
      [] OTHER -> "ok"

(* --------------------------- ending a call ----------------------------- *)

Outcome(status, val, text) == [status |-> status, val |-> val, text |-> text]
Pending == Outcome("pending", <<>>, "")

\* The call of thread t returns or raises, releasing n levels of the lock.
Done(t, status, val, text, n) ==
    /\ pc' = [pc EXCEPT ![t] = "idle"]
    /\ result' = [result EXCEPT ![t] = Outcome(status, val, text)]
    /\ lock' = Released(n)
    /\ inFlight' = inFlight \ {t}

RaiseKeepsLock(t, status, n) == Done(t, status, <<>>, "", 0)
Raise(t, status, n) == Done(t, status, <<>>, "", n)

\* "raise X" inside an except clause: the exception caught, cause, stays
\* attached to the new one as its __context__ (kept in the text field).
RaiseFrom(t, status, cause, n) == Done(t, status, <<>>, cause, n)

AssignAll(d, k, v) == [x \in (DOMAIN d) \cup {k} |-> v]

\* dict assignment d[k] = v
Assign(d, k, v) == [x \in (DOMAIN d) \cup {k} |-> IF x = k THEN v ELSE d[x]]

\* float(reply), then "if result < 0: result = 0.0"
Clamp(v) == IF v < 0 THEN 0 ELSE v

(* ------------------------- driver: set commands ------------------------ *)

\* What the method does to the cached state before it calls _send_command
\* (power_supply.py:254, 273).
ChannelsBeforeSend(c) ==
    CASE c.op = "enable_output" -> [channels EXCEPT ![c.ch] = TRUE]
      [] c.op = "disable_output" -> [channels EXCEPT ![c.ch] = FALSE]
      [] OTHER -> channels

\* A set method takes the lock, validates, and enters _send_command
\* (power_supply.py:52-63): the frame is built, and the write is started
\* unless the driver is a mock.
EnterSet(t) ==
    /\ pc[t] = "enter"
    /\ cur[t].op \in SetOps
    /\ CanAcquire(t)
    /\ LET c == cur[t]
           n == Depth(c.op)
       IN  IF Precheck(c) # "ok"
           THEN /\ Raise(t, Precheck(c), 0)
                /\ UNCHANGED <<channels, wire>>
           ELSE /\ channels' = ChannelsBeforeSend(c)
                /\ IF module_id = "unset" \/ (~mock /\ instrument = "unset")
                   THEN /\ Raise(t, "AttributeError", 0)
                        /\ UNCHANGED wire
                   ELSE IF mock
                   THEN /\ pc' = [pc EXCEPT ![t] = "settle"]
                        /\ lock' = Acquired(t, n)
                        /\ UNCHANGED <<result, inFlight, wire>>
                   ELSE /\ pc' = [pc EXCEPT ![t] = "write"]
                        /\ lock' = Acquired(t, n)
                        /\ inFlight' = inFlight \cup {t}
                        /\ wire' = [wire EXCEPT ![t] = Append(@, Framed("write", c))]
                        /\ UNCHANGED result
    /\ UNCHANGED <<mock, connection, module_id, instrument, set_voltages,
                   set_currents, cur, loc, pre, guiVars, pollVars>>
    /\ UNCHANGED <<programmed, given, histVars>>

WriteEndRetry(t) ==
    /\ pc[t] = "write"
    /\ cur[t].op \in SetOps
    /\ \E o \in WriteOutcomes :
          /\ pc' = [pc EXCEPT ![t] = IF o = "ok" THEN "settle" ELSE "enter"]
          /\ inFlight' = inFlight \ {t}
          /\ lock' = IF o = "ok" THEN lock ELSE Released(Depth(cur[t].op))
          /\ UNCHANGED result
    /\ UNCHANGED <<driverVars, cur, wire, loc, pre, guiVars, pollVars>>
    /\ UNCHANGED <<programmed, given, histVars>>

WriteEndReleasesLock(t) ==
    /\ pc[t] = "write"
    /\ cur[t].op \in SetOps
    /\ \E o \in WriteOutcomes :
          IF o = "ok"
          THEN /\ pc' = [pc EXCEPT ![t] = "settle"]
               /\ inFlight' = inFlight \ {t}
               /\ lock' = Released(Depth(cur[t].op))
               /\ UNCHANGED result
          ELSE Raise(t, WriteError(o), Depth(cur[t].op))
    /\ UNCHANGED <<driverVars, cur, wire, loc, pre, guiVars, pollVars>>
    /\ UNCHANGED <<programmed, given, histVars>>

\* instrument.write returns or raises (power_supply.py:62).
WriteEnd(t) ==
    /\ pc[t] = "write"
    /\ cur[t].op \in SetOps
    /\ \E o \in WriteOutcomes :
          IF o = "ok"
          THEN /\ pc' = [pc EXCEPT ![t] = "settle"]
               /\ inFlight' = inFlight \ {t}
               /\ UNCHANGED <<result, lock>>
          ELSE Raise(t, WriteError(o), Depth(cur[t].op))
    /\ UNCHANGED <<driverVars, cur, wire, loc, pre, guiVars, pollVars>>
    /\ UNCHANGED <<programmed, given, histVars>>

\* time.sleep(0.2) ends, _send_command returns, the method stores the
\* setpoint (power_supply.py:63, 197, 217) and leaves its "with" block.
SettleEnd(t) ==
    /\ pc[t] = "settle"
    /\ LET c == cur[t]
       IN  /\ set_voltages' = IF c.op = "set_voltage"
                              THEN Assign(set_voltages, c.ch, c.val)
                              ELSE set_voltages
           /\ set_currents' = IF c.op = "set_current_limit"
                              THEN Assign(set_currents, c.ch, c.val)
                              ELSE set_currents
           /\ Done(t, "ok", <<>>, "", Depth(c.op))
    /\ UNCHANGED <<mock, connection, module_id, instrument, channels, cur, wire,
                   loc, pre, guiVars, pollVars>>
    /\ programmed' =
          IF cur[t].op = "set_voltage"
          THEN [programmed EXCEPT !.v = [x \in (DOMAIN @) \cup {cur[t].ch} |->
                                           IF x = cur[t].ch THEN cur[t].val ELSE @[x]]]
          ELSE IF cur[t].op = "set_current_limit"
          THEN [programmed EXCEPT !.i = [x \in (DOMAIN @) \cup {cur[t].ch} |->
                                           IF x = cur[t].ch THEN cur[t].val ELSE @[x]]]
          ELSE programmed
    /\ UNCHANGED <<given, histVars>>

(* --------------------------- driver: queries --------------------------- *)

\* The value a query method returns for reply r (power_supply.py:319-322,
\* 344, 356-359, 370-373): get_output_current alone does not clamp.
ConvertedUnclamped(op, r) == r.val
Converted(op, r) ==
    CASE op = "get_output_current" -> r.val
      [] op = "_query_command" -> r.val
      [] OTHER -> Clamp(r.val)

\* The measurement a mock fabricates (power_supply.py:315-318, 339-343):
\* the programmed value of the channel plus (random.random() - 0.5) * 0.1.
MockReadingOfVoltage(c, j) == set_voltages[c.ch] + j
MockReading(c, j) ==
    IF c.op = "get_output_voltage" THEN set_voltages[c.ch] + j
    ELSE set_currents[c.ch] + j

\* A query method takes the lock, validates, answers from the cache when the
\* driver is a mock, and otherwise enters _query_command
\* (power_supply.py:65-87), whose try block turns every exception, the
\* missing module_id or instrument included, into a PowerSupplyError.
EnterQuery(t) ==
    /\ pc[t] = "enter"
    /\ cur[t].op \in QueryOps
    /\ CanAcquire(t)
    /\ LET c == cur[t]
           n == Depth(c.op)
       IN  IF Precheck(c) # "ok"
           THEN /\ Raise(t, Precheck(c), 0)
                /\ UNCHANGED wire
           ELSE IF mock
           THEN /\ UNCHANGED wire
                /\ CASE c.op \in {"get_output_voltage", "get_output_current"} ->
                          \E j \in Jitter : Done(t, "ok", <<MockReading(c, j)>>, "", 0)
                     [] c.op = "get_programmed_voltage" ->
                          IF c.ch \in DOMAIN set_voltages
                          THEN Done(t, "ok", <<set_voltages[c.ch]>>, "", 0)
                          ELSE Raise(t, "KeyError", 0)
                     [] c.op = "get_programmed_current_limit" ->
                          IF c.ch \in DOMAIN set_currents
                          THEN Done(t, "ok", <<set_currents[c.ch]>>, "", 0)
                          ELSE Raise(t, "KeyError", 0)
                     [] OTHER ->
                          IF module_id = "unset"
                          THEN Raise(t, "CommFailed", 0)
                          ELSE Done(t, "ok", <<>>, "", 0)
           ELSE IF module_id = "unset" \/ instrument = "unset"
           THEN /\ Raise(t, "CommFailed", 0)
                /\ UNCHANGED wire
           ELSE /\ pc' = [pc EXCEPT ![t] = "query"]
                /\ lock' = Acquired(t, n)
                /\ inFlight' = inFlight \cup {t}
                /\ wire' = [wire EXCEPT ![t] = Append(@, Framed("query", c))]
                /\ UNCHANGED result
    /\ UNCHANGED <<driverVars, cur, loc, pre, guiVars, pollVars>>
    /\ UNCHANGED <<programmed, given, histVars>>

\* instrument.query returns a reply or raises (power_supply.py:77-87); the
\* method converts the reply with float().
QueryEnd(t) ==
    /\ pc[t] = "query"
    /\ cur[t].op \in QueryOps
    /\ LET c == cur[t]
           n == Depth(c.op)
       IN  \E o \in QueryOutcomes :
              IF o = "ok"
              THEN \E r \in Replies :
                      IF c.op = "_query_command"
                      THEN Done(t, "ok", <<r.val>>, "", n)
                      ELSE IF ~r.numeric
                      THEN Raise(t, "ValueError", n)
                      ELSE Done(t, "ok", <<Converted(c.op, r)>>, "", n)
              ELSE RaiseFrom(t, QueryError(o), o, n)
    /\ UNCHANGED <<driverVars, cur, wire, loc, pre, guiVars, pollVars>>
    /\ UNCHANGED <<programmed, given, histVars>>

(* ------------------ driver: raw command, disconnect, accessors --------- *)

\* send_raw_command (power_supply.py:375-400): the write is made on
\* self.instrument whether or not the driver is a mock.
EnterRaw(t) ==
    /\ pc[t] = "enter"
    /\ cur[t].op = "send_raw_command"
    /\ CanAcquire(t)
    /\ LET c == cur[t]
       IN  IF Precheck(c) # "ok"
           THEN /\ Raise(t, Precheck(c), 0)
                /\ UNCHANGED wire
           ELSE IF instrument = "unset"
           THEN /\ Raise(t, "AttributeError", 0)
                /\ UNCHANGED wire
           ELSE /\ pc' = [pc EXCEPT ![t] = "write"]
                /\ lock' = Acquired(t, 1)
                /\ inFlight' = inFlight \cup {t}
                /\ wire' = [wire EXCEPT ![t] = Append(@, Unframed("write", c.text))]
                /\ UNCHANGED result
    /\ UNCHANGED <<driverVars, cur, loc, pre, guiVars, pollVars>>
    /\ UNCHANGED <<programmed, given, histVars>>

\* The value send_raw_command returns (power_supply.py:400).
RawReply == "TODO: Implement response"

RawWriteEnd(t) ==
    /\ pc[t] = "write"
    /\ cur[t].op = "send_raw_command"
    /\ \E o \in WriteOutcomes :
          IF o = "ok"
          THEN Done(t, "ok", <<>>, RawReply, 1)
          ELSE Raise(t, WriteError(o), 1)
    /\ UNCHANGED <<driverVars, cur, wire, loc, pre, guiVars, pollVars>>
    /\ UNCHANGED <<programmed, given, histVars>>

\* disconnect (power_supply.py:165-177); instrument.close() is one call
\* made under the lock.
Disconnect(t) ==
    /\ pc[t] = "enter"
    /\ cur[t].op = "disconnect"
    /\ CanAcquire(t)
    /\ IF Precheck(cur[t]) # "ok"
       THEN /\ Raise(t, Precheck(cur[t]), 0)
            /\ UNCHANGED <<connection, instrument, wire>>
       ELSE IF instrument = "unset"
       THEN /\ Raise(t, "AttributeError", 0)
            /\ UNCHANGED <<connection, instrument, wire>>
       ELSE /\ wire' = [wire EXCEPT ![t] = Append(@, Unframed("close", ""))]
            /\ \/ /\ instrument' = "closed"
                  /\ connection' = FALSE
                  /\ Done(t, "ok", <<>>, "", 0)
               \/ /\ Raise(t, "VisaIOError", 0)
                  /\ UNCHANGED <<connection, instrument>>
    /\ UNCHANGED <<mock, module_id, channels, set_voltages, set_currents, cur,
                   loc, pre, guiVars, pollVars>>
    /\ UNCHANGED <<programmed, given, histVars>>

EnabledCountOfAll == Cardinality(DOMAIN channels)

\* sum(self.channels.values())
EnabledCount == Cardinality({c \in DOMAIN channels : channels[c]})

\* get_num_enabled_channels, is_channel_enabled (power_supply.py:402-418)
Access(t) ==
    /\ pc[t] = "enter"
    /\ cur[t].op \in AccessOps
    /\ CanAcquire(t)
    /\ IF cur[t].op = "get_num_enabled_channels"
       THEN Done(t, "ok", <<EnabledCount>>, "", 0)
       ELSE Done(t, "ok",
                 <<IF cur[t].ch \in DOMAIN channels /\ channels[cur[t].ch]
                   THEN 1 ELSE 0>>, "", 0)
    /\ UNCHANGED <<driverVars, cur, wire, loc, pre, guiVars, pollVars>>
    /\ UNCHANGED <<programmed, given, histVars>>

(* --------------------------- driver: connect --------------------------- *)
(* connect (power_supply.py:105-153) takes no lock of its own: only the    *)
(* send_raw_command and _query_command calls inside it do.                 *)

NoLocals == [dir |-> 0, attempts |-> 0, idq |-> 0, idok |-> 0, first |-> TRUE]

\* power_supply.py:118
ParamsInvalidPortOnly(c) == c.port = ""
ParamsInvalid(c) == c.port = "" \/ c.baud = 0 \/ c.id = ""

\* Lines 118-127: validation, module_id, then open_resource (skipped by a
\* mock, which goes straight to "self.connection = True").
ConnectEnter(t) ==
    /\ pc[t] = "enter"
    /\ cur[t].op = "connect"
    /\ LET c == cur[t]
       IN  IF ParamsInvalid(c)
           THEN /\ Raise(t, "InvalidParams", 0)
                /\ UNCHANGED <<module_id, connection, wire, loc>>
           ELSE /\ module_id' = c.id
                /\ IF mock
                   THEN /\ connection' = TRUE
                        /\ pc' = [pc EXCEPT ![t] = "dir"]
                        /\ loc' = [loc EXCEPT !.dir = 1]
                        /\ UNCHANGED wire
                   ELSE /\ pc' = [pc EXCEPT ![t] = "open"]
                        /\ wire' = [wire EXCEPT ![t] = Append(@, Unframed("open", c.port))]
                        /\ UNCHANGED <<connection, loc>>
                /\ UNCHANGED <<result, lock, inFlight>>
    /\ UNCHANGED <<mock, instrument, channels, set_voltages, set_currents, cur,
                   pre, guiVars, pollVars>>
    /\ UNCHANGED <<programmed, given, histVars>>

\* rm.open_resource returns or raises (lines 123-127).
OpenEnd(t) ==
    /\ pc[t] = "open"
    /\ \/ /\ instrument' = "open"
          /\ connection' = TRUE
          /\ pc' = [pc EXCEPT ![t] = "dir"]
          /\ loc' = [loc EXCEPT !.dir = 1]
          /\ UNCHANGED <<result, lock, inFlight>>
       \/ /\ Raise(t, "VisaIOError", 0)
          /\ UNCHANGED <<instrument, connection, loc>>
    /\ UNCHANGED <<mock, module_id, channels, set_voltages, set_currents, cur,
                   wire, pre, guiVars, pollVars>>
    /\ UNCHANGED <<programmed, given, histVars>>

\* send_raw_command(directive) inside connect (lines 129-135): lock, checks,
\* instrument.write.
DirectiveStart(t) ==
    /\ pc[t] = "dir"
    /\ CanAcquire(t)
    /\ IF ~connection
       THEN /\ Raise(t, "NotConnected", 0)
            /\ UNCHANGED wire
       ELSE IF instrument = "unset"
       THEN /\ Raise(t, "AttributeError", 0)
            /\ UNCHANGED wire
       ELSE /\ pc' = [pc EXCEPT ![t] = "dirw"]
            /\ lock' = Acquired(t, 1)
            /\ inFlight' = inFlight \cup {t}
            /\ wire' = [wire EXCEPT ![t] =
                          Append(@, Unframed("write", Directives[loc.dir]))]
            /\ UNCHANGED result
    /\ UNCHANGED <<driverVars, cur, loc, pre, guiVars, pollVars>>
    /\ UNCHANGED <<programmed, given, histVars>>

DirectiveEndBeforeLast(t) ==
    /\ pc[t] = "dirw"
    /\ \E o \in WriteOutcomes :
          IF o = "ok"
          THEN /\ pc' = [pc EXCEPT ![t] = IF loc.dir + 1 < Len(Directives)
                                          THEN "dir" ELSE "id"]
               /\ loc' = [loc EXCEPT !.dir = @ + 1]
               /\ lock' = Released(1)
               /\ inFlight' = inFlight \ {t}
               /\ UNCHANGED result
          ELSE /\ Raise(t, WriteError(o), 1)
               /\ UNCHANGED loc
    /\ UNCHANGED <<driverVars, cur, wire, pre, guiVars, pollVars>>
    /\ UNCHANGED <<programmed, given, histVars>>

DirectiveEnd(t) ==
    /\ pc[t] = "dirw"
    /\ \E o \in WriteOutcomes :
          IF o = "ok"
          THEN /\ pc' = [pc EXCEPT ![t] = IF loc.dir < Len(Directives)
                                          THEN "dir" ELSE "id"]
               /\ loc' = [loc EXCEPT !.dir = @ + 1]
               /\ lock' = Released(1)
               /\ inFlight' = inFlight \ {t}
               /\ UNCHANGED result
          ELSE /\ Raise(t, WriteError(o), 1)
               /\ UNCHANGED loc
    /\ UNCHANGED <<driverVars, cur, wire, pre, guiVars, pollVars>>
    /\ UNCHANGED <<programmed, given, histVars>>

\* _query_command("ID?") inside connect: the one of line 137, outside the
\* loop (loc.first), or the one of line 141, inside it.  A mock never gets
\* here: its first directive fails on the missing self.instrument.
IdStart(t) ==
    /\ pc[t] = "id"
    /\ CanAcquire(t)
    /\ pc' = [pc EXCEPT ![t] = "idq"]
    /\ lock' = Acquired(t, 1)
    /\ inFlight' = inFlight \cup {t}
    /\ wire' = [wire EXCEPT ![t] =
                  Append(@, TCall("query", TRUE, module_id, "ID?", 0, 0, ""))]
    /\ loc' = [loc EXCEPT !.idq = @ + 1]
    /\ UNCHANGED <<driverVars, cur, result, pre, guiVars, pollVars>>
    /\ UNCHANGED <<programmed, given, histVars>>

\* Lines 137-150.  The query of line 137 is outside any try, so its
\* exception ends connect; a failure inside the loop counts an attempt.
IdEnd(t) ==
    /\ pc[t] = "idq"
    /\ \E o \in QueryOutcomes :
          IF loc.first
          THEN IF o = "ok"
               THEN /\ pc' = [pc EXCEPT ![t] = "id"]
                    /\ loc' = [loc EXCEPT !.first = FALSE, !.idok = @ + 1]
                    /\ lock' = Released(1)
                    /\ inFlight' = inFlight \ {t}
                    /\ UNCHANGED result
               ELSE /\ RaiseFrom(t, QueryError(o), o, 1)
                    /\ UNCHANGED loc
          ELSE IF o = "ok"
               THEN /\ Done(t, "ok", <<>>, "", 1)
                    /\ loc' = [loc EXCEPT !.idok = @ + 1]
               ELSE IF loc.attempts + 1 >= MaxAttempts
               THEN /\ Raise(t, "ConnectFailed", 1)
                    /\ loc' = [loc EXCEPT !.attempts = @ + 1]
               ELSE /\ pc' = [pc EXCEPT ![t] = "id"]
                    /\ loc' = [loc EXCEPT !.attempts = @ + 1]
                    /\ lock' = Released(1)
                    /\ inFlight' = inFlight \ {t}
                    /\ UNCHANGED result
    /\ UNCHANGED <<driverVars, cur, wire, pre, guiVars, pollVars>>
    /\ UNCHANGED <<programmed, given, histVars>>

(* ------------------------ main thread: driver calls -------------------- *)

\* The driver's fields, and the channel that the call the main thread made
\* just before disabled successfully (0 when that call was anything else).
Snapshot == [connection |-> connection, module_id |-> module_id,
             instrument |-> instrument, channels |-> channels,
             set_voltages |-> set_voltages, set_currents |-> set_currents,
             disabled |-> IF /\ cur["main"].op = "disable_output"
                             /\ result["main"].status = "ok"
                          THEN cur["main"].ch ELSE 0]

\* Thread t starts the driver call c.
StartCall(t, c) ==
    /\ cur' = [cur EXCEPT ![t] = c]
    /\ pc' = [pc EXCEPT ![t] = "enter"]
    /\ result' = [result EXCEPT ![t] = Pending]
    /\ wire' = [wire EXCEPT ![t] = <<>>]

MainStartCall(c) ==
    /\ StartCall("main", c)
    /\ loc' = NoLocals
    /\ pre' = Snapshot

\* The driver calls a caller on the main thread makes directly.
DirectCalls ==
    {Call(op, ch, v) : op \in {"set_voltage", "set_current_limit"},
                       ch \in ArgChannels, v \in ArgValues}
    \cup {Call(op, 1, 330) : op \in {"set_voltage_range", "set_current_range",
                                     "set_overvoltage_protection",
                                     "enable_overcurrent_protection",
                                     "disable_overcurrent_protection"}}
    \cup {Call(op, ch, 0) : op \in {"enable_output", "disable_output",
                                    "get_output_voltage", "get_output_current",
                                    "get_programmed_voltage",
                                    "get_programmed_current_limit",
                                    "is_channel_enabled"},
                            ch \in ArgChannels}
    \cup {[NoCall EXCEPT !.op = "write_to_screen", !.chars = ScreenText(n)] :
             n \in ArgTextLens}
    \cup {[NoCall EXCEPT !.op = "send_raw_command", !.text = x] : x \in ArgRaw}
    \cup {Call("disconnect", 0, 0), Call("get_num_enabled_channels", 0, 0),
          [NoCall EXCEPT !.op = "_query_command", !.text = "ID?"]}

NoHandler == [name |-> "none", active |-> FALSE, ch |-> 0, checked |-> FALSE,
              stage |-> "", nested |-> FALSE]

\* The main thread can start a call: no call or handler is running, and
\* the window has not been closed.
MainFree ==
    /\ pc["main"] = "idle"
    /\ ~hnd.active
    /\ hnd.stage # "closed"
    /\ opsDone < (IF mock THEN MaxCalls ELSE MaxOps)

\* The event loop of the GUI can run a handler.  The GUI constructs its
\* driver with mock=False (main.py:274): a mock driver has no GUI and no
\* monitor thread, only callers of its methods.
GuiFree == MainFree /\ ~mock

\* connect called directly, as the caller of a mock driver does.
ConnectCalls ==
    {[NoCall EXCEPT !.op = "connect", !.port = a[1], !.baud = a[2], !.id = a[3]] :
        a \in ConnectArgs}

\* A caller invokes one driver method (the settings dialog, the send button,
\* save_current_settings, or any other user of the PowerSupply API).
CallDriver ==
    /\ MainFree
    /\ \E c \in DirectCalls \cup (IF mock THEN ConnectCalls ELSE {}) :
          /\ MainStartCall(c)
          /\ given' = IF c.op = "connect" THEN c.id ELSE given
    /\ opsDone' = opsDone + 1
    /\ UNCHANGED <<driverVars, lock, inFlight, hnd, buttonsEnabled, btn, pollVars>>
    /\ UNCHANGED <<programmed, histVars>>

(* ---------------- main thread: on_connection_toggled(True) ------------- *)

\* main.py:651-660: the handler calls connect.
ConnectionToggled ==
    /\ GuiFree
    /\ \E c \in ConnectCalls : MainStartCall(c) /\ given' = c.id
    /\ hnd' = [NoHandler EXCEPT !.name = "connect", !.active = TRUE,
                                !.stage = "connect"]
    /\ opsDone' = opsDone + 1
    /\ UNCHANGED <<driverVars, lock, inFlight, buttonsEnabled, btn, pollVars>>
    /\ UNCHANGED <<programmed, histVars>>

\* main.py:662-683: on success the ON/OFF buttons are enabled (config is
\* empty when no config.json exists); on any exception the error is logged.
ConnectionToggledReturn ==
    /\ pc["main"] = "idle"
    /\ hnd.active /\ hnd.name = "connect"
    /\ buttonsEnabled' = (buttonsEnabled \/ result["main"].status = "ok")
    /\ hnd' = [hnd EXCEPT !.active = FALSE,
                          !.stage = IF result["main"].status = "ok"
                                    THEN "returned" ELSE "raised"]
    /\ UNCHANGED <<driverVars, lock, inFlight, callVars, opsDone, btn, pollVars>>
    /\ UNCHANGED <<programmed, given, histVars>>

(* ------------------- main thread: on_on_off_toggled -------------------- *)

\* main.py:593-627: the button flips, and the handler calls enable_output
\* or disable_output for its channel.
ToggleBegin ==
    /\ GuiFree
    /\ buttonsEnabled
    /\ \E ch \in ToggleChannels :
          /\ btn' = [btn EXCEPT ![ch] = ~btn[ch]]
          /\ hnd' = [name |-> "toggle", active |-> TRUE, ch |-> ch,
                     checked |-> ~btn[ch], stage |-> "output", nested |-> FALSE]
          /\ MainStartCall(Call(IF ~btn[ch] THEN "enable_output"
                                ELSE "disable_output", ch, 0))
    /\ opsDone' = opsDone + 1
    /\ UNCHANGED <<driverVars, lock, inFlight, buttonsEnabled, pollVars>>
    /\ UNCHANGED <<programmed, given, histVars>>

\* The exception classes the "except" of main.py:616 catches.
CaughtByToggle(status) == IsPowerSupplyError(status)

\* main.py:608-627: enable_output / disable_output has returned or raised.
\* A caught failure of enable_output unchecks the button, which runs the
\* handler again, nested, with checked = False.
ToggleAfterOutput ==
    /\ pc["main"] = "idle"
    /\ hnd.active /\ hnd.name = "toggle" /\ hnd.stage = "output"
    /\ LET st == result["main"].status
       IN  IF st = "ok"
           THEN /\ hnd' = [hnd EXCEPT !.stage = "monitor"]
                /\ UNCHANGED <<callVars, btn>>
           ELSE IF hnd.checked /\ CaughtByToggle(st)
           THEN /\ btn' = [btn EXCEPT ![hnd.ch] = FALSE]
                /\ hnd' = [hnd EXCEPT !.checked = FALSE, !.nested = TRUE]
                /\ MainStartCall(Call("disable_output", hnd.ch, 0))
           ELSE /\ hnd' = [hnd EXCEPT !.active = FALSE, !.stage = "raised"]
                /\ UNCHANGED <<callVars, btn>>
    /\ UNCHANGED <<driverVars, lock, inFlight, opsDone, buttonsEnabled, pollVars>>
    /\ UNCHANGED <<programmed, given, histVars>>

\* The frame of the handler reaches its end: a nested frame returns into
\* the except clause of the outer one (checked = True), which goes on at
\* main.py:629; the outer frame ends the handler.
FrameReturn ==
    IF hnd.nested
    THEN [hnd EXCEPT !.checked = TRUE, !.nested = FALSE, !.stage = "monitor"]
    ELSE [hnd EXCEPT !.active = FALSE, !.stage = "returned"]

\* After main.py:634: "if not checked" the programmed values are displayed.
AfterMonitor ==
    IF ~hnd.checked
    THEN /\ hnd' = [hnd EXCEPT !.stage = "display_v"]
         /\ MainStartCall(Call("get_programmed_voltage", hnd.ch, 0))
    ELSE /\ hnd' = FrameReturn
         /\ UNCHANGED callVars

\* The condition under which the handler starts the monitor thread
\* (main.py:629).
ShouldStartAlways(checked) == checked
ShouldStart(checked) == checked /\ ~thrRunning

\* main.py:629-634: start the monitor thread, or stop it when no channel is
\* enabled (get_num_enabled_channels takes the driver lock).
ToggleMonitor ==
    /\ pc["main"] = "idle"
    /\ hnd.active /\ hnd.name = "toggle" /\ hnd.stage = "monitor"
    /\ IF ShouldStart(hnd.checked)
       THEN /\ thrRunning' = TRUE
            /\ ppc' = "starting"
            /\ AfterMonitor
            /\ UNCHANGED running
       ELSE /\ CanAcquire("main")
            /\ IF EnabledCount = 0
               THEN /\ running' = FALSE
                    /\ hnd' = [hnd EXCEPT !.stage = "wait"]
                    /\ UNCHANGED <<callVars, thrRunning, ppc>>
               ELSE /\ AfterMonitor
                    /\ UNCHANGED <<running, thrRunning, ppc>>
    /\ UNCHANGED <<driverVars, lock, inFlight, opsDone, buttonsEnabled, btn,
                   pollCh, voltage, sweepOk, sweepErr, sweepPub, emitted>>
    /\ UNCHANGED <<programmed, given, histVars>>

\* main.py:633: QThread.wait() returns once run() has returned.
ToggleWait ==
    /\ pc["main"] = "idle"
    /\ hnd.active /\ hnd.name = "toggle" /\ hnd.stage = "wait"
    /\ ~thrRunning
    /\ AfterMonitor
    /\ UNCHANGED <<driverVars, lock, inFlight, opsDone, buttonsEnabled, btn,
                   pollVars>>
    /\ UNCHANGED <<programmed, given, histVars>>

\* main.py:636-642: the two getters; an exception of either leaves the
\* handler.
ToggleDisplay ==
    /\ pc["main"] = "idle"
    /\ hnd.active /\ hnd.name = "toggle" /\ hnd.stage \in {"display_v", "display_i"}
    /\ IF result["main"].status # "ok"
       THEN /\ hnd' = [hnd EXCEPT !.active = FALSE, !.stage = "raised"]
            /\ UNCHANGED callVars
       ELSE IF hnd.stage = "display_v"
       THEN /\ hnd' = [hnd EXCEPT !.stage = "display_i"]
            /\ MainStartCall(Call("get_programmed_current_limit", hnd.ch, 0))
       ELSE /\ hnd' = FrameReturn
            /\ UNCHANGED callVars
    /\ UNCHANGED <<driverVars, lock, inFlight, opsDone, buttonsEnabled, btn,
                   pollVars>>
    /\ UNCHANGED <<programmed, given, histVars>>

(* ------------------------ main thread: closeEvent ---------------------- *)

\* main.py:343-346: the window is closed; the handler calls stop(), which
\* clears the flag (main.py:260-261), and then wait().
CloseEvent ==
    /\ GuiFree
    /\ running' = FALSE
    /\ hnd' = [NoHandler EXCEPT !.name = "close", !.active = TRUE, !.stage = "wait"]
    /\ opsDone' = opsDone + 1
    /\ UNCHANGED <<driverVars, lock, inFlight, callVars, buttonsEnabled, btn,
                   thrRunning, ppc, pollCh, voltage, sweepOk, sweepErr, sweepPub,
                   emitted>>
    /\ UNCHANGED <<programmed, given, histVars>>

\* main.py:346-353: wait() returns once run() has returned (at once for a
\* thread that is not running); the window closes and the event loop ends.
CloseWait ==
    /\ hnd.active /\ hnd.name = "close" /\ hnd.stage = "wait"
    /\ ~thrRunning
    /\ hnd' = [hnd EXCEPT !.active = FALSE, !.stage = "closed"]
    /\ UNCHANGED <<driverVars, lock, inFlight, callVars, opsDone, buttonsEnabled,
                   btn, pollVars>>
    /\ UNCHANGED <<programmed, given, histVars>>

(* --------------------- VoltageMonitorThread.run ------------------------ *)

NoSample == [channel |-> 0, voltage |-> 0, current |-> 0]

PollerStartWithCurrent(c) == StartCall("poller", Call("get_output_current", c, 0))
PollerStart(c) == StartCall("poller", Call("get_output_voltage", c, 0))

\* main.py:242-243: the thread body begins and sets self.running.
PollerRunBegin ==
    /\ ppc = "starting"
    /\ running' = TRUE
    /\ ppc' = "while"
    /\ emitted' = NoSample
    /\ UNCHANGED <<driverVars, lock, inFlight, callVars, guiVars, thrRunning,
                   pollCh, voltage, sweepOk, sweepErr, sweepPub>>
    /\ UNCHANGED <<programmed, given, histVars>>

\* main.py:244-247: "while self.running" starts a sweep with channel 1, or
\* run() returns.
PollerWhile ==
    /\ ppc = "while"
    /\ IF running
       THEN /\ ppc' = "voltage"
            /\ pollCh' = 1
            /\ sweepOk' = {}
            /\ sweepErr' = {}
            /\ sweepPub' = {}
            /\ PollerStart(1)
            /\ UNCHANGED thrRunning
       ELSE /\ ppc' = "finished"
            /\ thrRunning' = FALSE
            /\ UNCHANGED <<pc, cur, result, wire, pollCh, sweepOk, sweepErr, sweepPub>>
    /\ emitted' = NoSample
    /\ UNCHANGED <<driverVars, lock, inFlight, loc, pre, guiVars, running,
                   voltage>>
    /\ UNCHANGED <<programmed, given, histVars>>

\* The "for channel in range(1, 5)" loop goes to its next channel, or to
\* msleep after the last one.
NextChannel ==
    IF pollCh < NumChannels
    THEN /\ pollCh' = pollCh + 1
         /\ ppc' = "voltage"
         /\ PollerStart(pollCh + 1)
    ELSE /\ ppc' = "sleep"
         /\ UNCHANGED <<pollCh, pc, cur, result, wire>>

\* An exception one of the handlers of main.py:251-256 catches abandons the
\* channel and the loop goes on.
AbandonAndBreak ==
    /\ sweepErr' = sweepErr \cup {pollCh}
    /\ ppc' = "sleep"
    /\ UNCHANGED <<pollCh, pc, cur, result, wire>>
AbandonChannel ==
    /\ sweepErr' = sweepErr \cup {pollCh}
    /\ NextChannel

\* The exceptions main.py:251-256 catch.
CaughtByPoller(status) == IsPowerSupplyError(status)

\* An exception no handler catches ends run().
PollerDies ==
    /\ ppc' = "crashed"
    /\ thrRunning' = FALSE
    /\ emitted' = NoSample
    /\ UNCHANGED <<pollCh, pc, cur, result, wire, voltage, sweepOk, sweepErr,
                   sweepPub>>

\* main.py:247-248: get_output_voltage has returned or raised.
PollerAfterVoltage ==
    /\ ppc = "voltage"
    /\ pc["poller"] = "idle"
    /\ LET r == result["poller"]
       IN  IF r.status = "ok"
           THEN /\ voltage' = r.val[1]
                /\ ppc' = "current"
                /\ StartCall("poller", Call("get_output_current", pollCh, 0))
                /\ emitted' = NoSample
                /\ UNCHANGED <<thrRunning, pollCh, sweepOk, sweepErr, sweepPub>>
           ELSE IF CaughtByPoller(r.status)
           THEN /\ AbandonChannel
                /\ voltage' = 0
                /\ emitted' = NoSample
                /\ UNCHANGED <<thrRunning, sweepOk, sweepPub>>
           ELSE PollerDies
    /\ UNCHANGED <<driverVars, lock, inFlight, loc, pre, guiVars, running>>
    /\ UNCHANGED <<programmed, given, histVars>>

\* main.py:248-250: get_output_current has returned or raised; on success
\* realtime_data_updated is emitted.
PollerAfterCurrent ==
    /\ ppc = "current"
    /\ pc["poller"] = "idle"
    /\ LET r == result["poller"]
       IN  IF r.status = "ok"
           THEN /\ sweepOk' = sweepOk \cup {pollCh}
                /\ sweepPub' = sweepPub \cup {pollCh}
                /\ emitted' = [channel |-> pollCh, voltage |-> voltage,
                                  current |-> r.val[1]]
                /\ NextChannel
                /\ voltage' = 0
                /\ UNCHANGED <<thrRunning, sweepErr>>
           ELSE IF CaughtByPoller(r.status)
           THEN /\ AbandonChannel
                /\ voltage' = 0
                /\ emitted' = NoSample
                /\ UNCHANGED <<thrRunning, sweepOk, sweepPub>>
           ELSE PollerDies
    /\ UNCHANGED <<driverVars, lock, inFlight, loc, pre, guiVars, running>>
    /\ UNCHANGED <<programmed, given, histVars>>

\* main.py:258: msleep(self.interval) ends.
PollerSleep ==
    /\ ppc = "sleep"
    /\ ppc' = "while"
    /\ emitted' = NoSample
    /\ UNCHANGED <<driverVars, lock, inFlight, callVars, guiVars, thrRunning,
                   running, pollCh, voltage, sweepOk, sweepErr, sweepPub>>
    /\ UNCHANGED <<programmed, given, histVars>>

(* --------------------------- specification ----------------------------- *)

Init ==
    /\ mock \in BOOLEAN
    /\ connection = FALSE
    /\ module_id = "unset"
    /\ instrument = "unset"
    /\ channels = [c \in Channels |-> FALSE]
    /\ set_voltages = [c \in Channels |-> 0]
    /\ set_currents = [c \in Channels |-> 0]
    /\ lock = FreeLock
    /\ inFlight = {}
    /\ pc = [t \in Threads |-> "idle"]
    /\ cur = [t \in Threads |-> NoCall]
    /\ result = [t \in Threads |-> Pending]
    /\ wire = [t \in Threads |-> <<>>]
    /\ loc = NoLocals
    /\ pre = Snapshot
    /\ opsDone = 0
    /\ hnd = NoHandler
    /\ buttonsEnabled = FALSE
    /\ btn = [c \in Channels |-> FALSE]
    /\ thrRunning = FALSE
    /\ running = FALSE
    /\ ppc = "new"
    /\ pollCh = 0
    /\ voltage = 0
    /\ sweepOk = {}
    /\ sweepErr = {}
    /\ sweepPub = {}
    /\ emitted = NoSample
    /\ programmed = [v |-> [c \in Channels |-> 0], i |-> [c \in Channels |-> 0]]
    /\ given = "unset"
    /\ voltage_history = [c \in Channels |-> <<>>]
    /\ current_history = [c \in Channels |-> <<>>]
    /\ delivered = [c \in Channels |-> 0]

Next ==
    \/ CallDriver
    \/ ConnectionToggled
    \/ ConnectionToggledReturn
    \/ ToggleBegin
    \/ ToggleAfterOutput
    \/ ToggleMonitor
    \/ ToggleWait
    \/ ToggleDisplay
    \/ CloseEvent
    \/ CloseWait
    \/ \E t \in Threads : EnterSet(t)
    \/ \E t \in Threads : WriteEnd(t)
    \/ \E t \in Threads : SettleEnd(t)
    \/ \E t \in Threads : EnterQuery(t)
    \/ \E t \in Threads : QueryEnd(t)
    \/ \E t \in Threads : EnterRaw(t)
    \/ \E t \in Threads : RawWriteEnd(t)
    \/ \E t \in Threads : Disconnect(t)
    \/ \E t \in Threads : Access(t)
    \/ \E t \in Threads : ConnectEnter(t)
    \/ \E t \in Threads : OpenEnd(t)
    \/ \E t \in Threads : DirectiveStart(t)
    \/ \E t \in Threads : DirectiveEnd(t)
    \/ \E t \in Threads : IdStart(t)
    \/ \E t \in Threads : IdEnd(t)
    \/ PollerRunBegin
    \/ PollerWhile
    \/ PollerAfterVoltage
    \/ PollerAfterCurrent
    \/ PollerSleep

Spec == Init /\ [][Next]_vars

\* The scheduler runs the monitor thread whenever it can take a step: the
\* thread body, and the driver calls it makes, are not starved.
PollerFairness ==
    /\ WF_vars(PollerRunBegin)
    /\ WF_vars(PollerWhile)
    /\ WF_vars(PollerAfterVoltage)
    /\ WF_vars(PollerAfterCurrent)
    /\ WF_vars(PollerSleep)
    /\ WF_vars(EnterQuery("poller"))
    /\ WF_vars(QueryEnd("poller"))

FairSpec == Spec /\ PollerFairness

(* ------------------ PowerSupplyGUI.update_voltage_history -------------- *)

\* The channels samples are delivered for.
SampleChannels == {1, 2}
\* The n-th sample delivered for a channel: its voltage and its current.
SampleVoltage(n) == 100 + n
SampleCurrent(n) == n

PopNewest(s) == SubSeq(s, 1, Len(s) - 1)
\* list.pop(0)
Pop0(s) == Tail(s)

\* main.py:324-328: both lists get the new entry, and both lose their
\* first one when the voltage list has become longer than 100.  The rest of
\* the slot (lines 330-341) reads the driver and redraws widgets.
update_voltage_history(channel, v, c) ==
    LET vh == Append(voltage_history[channel], v)
        ch == Append(current_history[channel], c)
    IN  IF Len(vh) > HistoryLimit
        THEN /\ voltage_history' = [voltage_history EXCEPT ![channel] = Pop0(vh)]
             /\ current_history' = [current_history EXCEPT ![channel] = Pop0(ch)]
        ELSE /\ voltage_history' = [voltage_history EXCEPT ![channel] = vh]
             /\ current_history' = [current_history EXCEPT ![channel] = ch]

\* realtime_data_updated delivers the next sample of a channel to the slot
\* (main.py:301-303).
DeliverSample ==
    \E channel \in SampleChannels :
        /\ delivered[channel] < MaxSamples
        /\ delivered' = [delivered EXCEPT ![channel] = @ + 1]
        /\ update_voltage_history(channel, SampleVoltage(delivered[channel] + 1),
                                  SampleCurrent(delivered[channel] + 1))
        /\ UNCHANGED <<driverVars, lock, inFlight, callVars, guiVars, pollVars,
                       programmed, given>>

\* The GUI's driver is a real one (main.py:274).
HistoryInit == Init /\ ~mock

HistorySpec == HistoryInit /\ [][DeliverSample]_vars

(* ------------------------------- claims -------------------------------- *)

\* The last call of the main thread has ended and was the method op.
MainEnded(ops) ==
    /\ pc["main"] = "idle"
    /\ cur["main"].op \in ops
    /\ result["main"].status # "pending"

\* The cached setpoints are what they were when the main thread's call began.
SetpointsKept ==
    /\ set_voltages = pre.set_voltages
    /\ set_currents = pre.set_currents

\* C1: at most one thread is inside a transport write or query at any time,
\* whatever the interleaving of the main thread's driver calls and the
\* poller's.
C1_OneTransaction == Cardinality(inFlight) <= 1

\* The poller's query is on the wire while the main thread has called
\* set_voltage with arguments that pass validation and waits for the lock.
C1_Witness ==
    /\ inFlight = {"poller"}
    /\ pc["main"] = "enter"
    /\ cur["main"].op = "set_voltage"
    /\ Precheck(cur["main"]) = "ok"

\* C2: no transport write or query is in progress while the connection
\* state is Disconnected.
C2_NoIoWhileDisconnected == inFlight # {} => connection

\* C3: set_voltage called while Disconnected ends with the not-connected
\* error, has made no transport call, and leaves the cached programmed
\* voltages as they were.
C3_SetVoltageDisconnected ==
    (MainEnded({"set_voltage"}) /\ ~pre.connection) =>
        /\ result["main"].status = "NotConnected"
        /\ wire["main"] = <<>>
        /\ set_voltages = pre.set_voltages

\* set_voltage(1, 3.30) was refused on a driver that had been connected and
\* was disconnected again.
C3_Witness ==
    /\ MainEnded({"set_voltage"})
    /\ ~pre.connection
    /\ pre.instrument = "closed"
    /\ cur["main"].val = 330
    /\ result["main"].status = "NotConnected"

\* C4: set_voltage / set_current_limit with a negative value end with the
\* invalid-parameter error whatever the connection state, have made no
\* transport call, and leave the cached setpoints as they were.
C4_NegativeRefusedRegardless ==
    (MainEnded({"set_voltage", "set_current_limit"}) /\ cur["main"].val < 0) =>
        /\ result["main"].status = "InvalidParams"
        /\ wire["main"] = <<>>
        /\ SetpointsKept

\* C5: a measurement on a valid channel that is off, on a connected driver,
\* ends with the distinguished channel-not-enabled class and without any
\* transport call.
C5_DisabledChannelDistinguished ==
    (/\ MainEnded({"get_output_voltage", "get_output_current"})
     /\ pre.connection
     /\ cur["main"].ch \in Channels
     /\ ~pre.channels[cur["main"].ch]) =>
        /\ ErrClass(result["main"].status) = "PowerSupplyChannelNotEnabledError"
        /\ wire["main"] = <<>>

\* The errors of the failures C6 names: invalid parameters, a failed
\* open_resource or directive write, a failed identification handshake.
ConnectFailures == {"InvalidParams", "VisaIOError", "Timeout", "CommFailed",
                    "ConnectFailed"}

\* C6: a connect that started Disconnected and ended in one of these
\* failures leaves the connection state Disconnected.
C6_FailedConnectDisconnected ==
    (/\ MainEnded({"connect"})
     /\ result["main"].status \in ConnectFailures
     /\ ~pre.connection) => ~connection

\* C7: connect issues at most 3 identification queries; it succeeds as soon
\* as one of them is answered, and a connect that fails in the handshake
\* fails with the connection-establishment error after 3 failed queries.
C7_HandshakeAttempts ==
    cur["main"].op = "connect" =>
        /\ loc.idq <= MaxAttempts
        /\ loc.idok <= 1
        /\ (MainEnded({"connect"}) /\ result["main"].status = "ok") => loc.idok = 1
        /\ (MainEnded({"connect"}) /\ result["main"].status # "ok" /\ loc.idq > 0) =>
              /\ result["main"].status = "ConnectFailed"
              /\ loc.idq - loc.idok = MaxAttempts

\* C8: connect with an empty port, a zero baud rate or an empty module id
\* ends with the invalid-parameter error, has made no transport call, and
\* leaves the connection state and the stored module id as they were.
C8_InvalidConnectParams ==
    (/\ MainEnded({"connect"})
     /\ (cur["main"].port = "" \/ cur["main"].baud = 0 \/ cur["main"].id = "")) =>
        /\ result["main"].status = "InvalidParams"
        /\ wire["main"] = <<>>
        /\ connection = pre.connection
        /\ module_id = pre.module_id
        /\ instrument = pre.instrument

\* connect with baud rate 0 was refused on a driver connected under module
\* id "7", which it still has.
C8_Witness ==
    /\ MainEnded({"connect"})
    /\ cur["main"].baud = 0
    /\ cur["main"].id = "5"
    /\ pre.connection
    /\ module_id = "7"
    /\ result["main"].status = "InvalidParams"

\* C9: a caught exception on one channel ends neither the sweep nor the
\* thread: while the thread lives every channel before the current one has
\* been visited in this sweep, a finished sweep has visited all of 1..4,
\* every channel that answered both queries has its sample, and only an
\* exception that is no PowerSupplyError ends run().
C9_SweepGoesOn ==
    /\ ppc \in {"voltage", "current"} => sweepOk \cup sweepErr = 1..(pollCh - 1)
    /\ ppc = "sleep" => sweepOk \cup sweepErr = Channels
    /\ ppc \in {"voltage", "current", "sleep"} =>
          /\ sweepPub = sweepOk
          /\ sweepOk \cap sweepErr = {}
    /\ ppc = "crashed" => ~IsPowerSupplyError(result["poller"].status)

\* A sweep has ended in which channel 1, enabled, failed a query, channel 2
\* answered both and has its sample, and channels 3 and 4, off, were refused.
C9_Witness ==
    /\ ppc = "sleep"
    /\ channels[1] /\ 1 \in sweepErr
    /\ 2 \in sweepPub
    /\ {3, 4} \subseteq sweepErr

\* C10: when a toggle handler ends, the monitor thread is running exactly
\* if some channel is enabled.
C10_MonitorTracksEnabled ==
    [][(hnd.active /\ hnd.name = "toggle" /\ ~hnd'.active) =>
          (thrRunning' <=> EnabledCount' > 0)]_vars

\* C11: a stop request is honoured: whenever the main thread has called
\* stop() and waits for the monitor thread (in the toggle handler or in
\* closeEvent), run() eventually returns and wait() can return.
C11_StopHonoured == (hnd.active /\ hnd.stage = "wait") ~> ~thrRunning

\* The monitor thread is not running: never started, or run() has ended.
PollerStopped == ppc \in {"new", "finished", "crashed"}

\* C12: start and stop of the monitor thread are idempotent.  A toggle
\* handler that reaches main.py:629 for a button switched ON while the
\* thread is running leaves the thread, its loop position and its flag as
\* they are; a stop() followed by wait() on a thread that is not running
\* changes nothing of the thread, finds wait() able to return at once, and
\* leaves the thread stopped.
C12_StartStopIdempotent ==
    [][/\ (/\ hnd.active /\ hnd.stage = "monitor" /\ hnd.checked
           /\ thrRunning /\ hnd' # hnd) =>
              /\ thrRunning'
              /\ <<ppc, pollCh, running>>' = <<ppc, pollCh, running>>
       /\ (/\ hnd'.active /\ hnd'.stage = "wait" /\ hnd # hnd'
           /\ PollerStopped) =>
              /\ PollerStopped' /\ ppc' = ppc
              /\ ~thrRunning' /\ ~running'
       /\ (/\ hnd.active /\ hnd.stage = "wait" /\ PollerStopped) =>
              /\ ~thrRunning
              /\ PollerStopped' /\ ppc' = ppc /\ running' = running
      ]_vars

\* The button of channel 2 was switched ON while the thread, started for
\* channel 1, was in a sweep; the handler has returned and the sweep goes on.
C12_Witness ==
    /\ hnd.name = "toggle" /\ hnd.ch = 2 /\ hnd.checked
    /\ hnd.stage = "returned"
    /\ channels[1] /\ channels[2]
    /\ thrRunning /\ running
    /\ ppc \in {"voltage", "current"}

\* C13: disable_output(c) called on a connected driver, for a valid channel
\* c, right after a disable_output(c) that succeeded, succeeds again when
\* the transport accepts its write: it hands the one framed command
\* OUT c,0 to the transport (a mock writes nothing), leaves channel c
\* disabled and leaves the flag of every other channel as it was.
C13_DisableTwice ==
    (/\ MainEnded({"disable_output"})
     /\ pre.connection
     /\ cur["main"].ch \in Channels
     /\ pre.disabled = cur["main"].ch
     /\ result["main"].status # "VisaIOError") =>
        /\ result["main"].status = "ok"
        /\ wire["main"] = IF mock THEN <<>>
                          ELSE <<TCall("write", TRUE, module_id, "OUT",
                                       cur["main"].ch, 0, "")>>
        /\ ~channels[cur["main"].ch]
        /\ \A o \in Channels \ {cur["main"].ch} : channels[o] = pre.channels[o]

\* disable_output(1) has succeeded twice in a row on a connected driver with
\* an open instrument.
C13_Witness ==
    /\ MainEnded({"disable_output"})
    /\ ~mock /\ pre.connection /\ pre.instrument = "open"
    /\ cur["main"].ch = 1
    /\ pre.disabled = 1
    /\ result["main"].status = "ok"
    /\ Len(wire["main"]) = 1

\* C14: on a mock driver no call opens, writes, queries or closes the
\* transport, and every call that has ended has produced its result or one
\* of the driver's own errors: none has failed on self.instrument, the
\* transport object a mock never creates.
C14_MockNeverTouchesTransport ==
    mock =>
        /\ instrument = "unset"
        /\ inFlight = {}
        /\ \A t \in Threads :
              /\ wire[t] = <<>>
              /\ result[t].status # "AttributeError"

\* |a - b|
Dist(a, b) == IF a >= b THEN a - b ELSE b - a

\* C15: on a mock driver every get_output_voltage(c) that returns a value
\* returns one within 0.05 V of the value of the last set_voltage(c, v) that
\* succeeded, and every get_output_current(c) one within 0.05 A of the value
\* of the last set_current_limit that succeeded (values in 0.01 units).
C15_MockRoundTrip ==
    (/\ mock
     /\ MainEnded({"get_output_voltage", "get_output_current"})
     /\ result["main"].status = "ok") =>
        Dist(result["main"].val[1],
             IF cur["main"].op = "get_output_voltage"
             THEN programmed.v[cur["main"].ch]
             ELSE programmed.i[cur["main"].ch]) <= 5

\* After connect, set_current_limit(1, 3.30) and enable_output(1) on a mock
\* driver, get_output_current(1) has returned 3.34.
C15_Witness ==
    /\ mock /\ connection
    /\ MainEnded({"get_output_current"})
    /\ cur["main"].ch = 1
    /\ channels[1]
    /\ programmed.i[1] = 330
    /\ result["main"].status = "ok"
    /\ result["main"].val = <<334>>

\* C16: on a driver that is no mock, get_output_voltage and
\* get_output_current return the instrument's reply with a negative reply
\* replaced by 0: the value returned is never negative.
C16_MeasurementsClamped ==
    (/\ ~mock
     /\ MainEnded({"get_output_voltage", "get_output_current"})
     /\ result["main"].status = "ok") =>
        /\ result["main"].val[1] >= 0
        /\ result["main"].val[1] \in {Clamp(r.val) : r \in {x \in Replies : x.numeric}}

\* C17: get_programmed_voltage(c) / get_programmed_current_limit(c) on a
\* mock driver return, for every channel c of 1..4, exactly the value of the
\* last set_voltage / set_current_limit for c that succeeded (0 if none)
\* and make no transport call; on a driver that is no mock a value is
\* returned after exactly one framed VSET? c / ISET? c query and is the
\* reply, with a negative reply replaced by 0.
C17_ProgrammedGetters ==
    MainEnded({"get_programmed_voltage", "get_programmed_current_limit"}) =>
        LET c == cur["main"]
            isV == c.op = "get_programmed_voltage"
        IN  IF mock
            THEN /\ wire["main"] = <<>>
                 /\ c.ch \in Channels =>
                       /\ result["main"].status = "ok"
                       /\ result["main"].val =
                             <<IF isV THEN programmed.v[c.ch] ELSE programmed.i[c.ch]>>
            ELSE result["main"].status = "ok" =>
                   /\ wire["main"] =
                         <<TCall("query", TRUE, module_id,
                                 IF isV THEN "VSET?" ELSE "ISET?", c.ch, 0, "")>>
                   /\ result["main"].val[1] >= 0
                   /\ result["main"].val[1] \in
                         {IF r.val < 0 THEN 0 ELSE r.val : r \in {x \in Replies : x.numeric}}

\* get_programmed_voltage(1) has returned 0 on a connected driver that is
\* no mock: the instrument's reply was negative.
C17_Witness ==
    /\ ~mock /\ connection
    /\ MainEnded({"get_programmed_voltage"})
    /\ cur["main"].ch = 1
    /\ result["main"].status = "ok"
    /\ result["main"].val = <<0>>

\* C18: write_to_screen refuses a text of more than 12 characters with an
\* error and without any transport call; for a text of at most 12
\* characters, on a driver whose transport has been opened, it hands the
\* transport exactly one framed DSP command, whose text is the argument
\* with every lower case letter replaced by its capital.
C18_WriteToScreen ==
    MainEnded({"write_to_screen"}) =>
        LET text == cur["main"].chars
        IN  IF Len(text) > 12
            THEN /\ result["main"].status = "TextTooLong"
                 /\ wire["main"] = <<>>
            ELSE pre.instrument # "unset" =>
                   /\ Len(wire["main"]) = 1
                   /\ LET w == wire["main"][1]
                      IN  /\ w.kind = "write" /\ w.framed /\ w.body = "DSP"
                          /\ w.module = module_id
                          /\ Len(w.chars) = Len(text)
                          /\ \A i \in 1..Len(text) :
                                w.chars[i] = (IF text[i] = "a" THEN "A" ELSE text[i])

\* write_to_screen has returned after a text of exactly 12 characters, with
\* lower case letters in it, was written to an open instrument.
C18_Witness ==
    /\ MainEnded({"write_to_screen"})
    /\ Len(cur["main"].chars) = 12
    /\ cur["main"].chars[1] = "a"
    /\ pre.instrument = "open"
    /\ result["main"].status = "ok"
    /\ wire["main"][1].chars[1] = "A"

\* C19: set_voltage_range, set_current_range, set_overvoltage_protection,
\* enable_overcurrent_protection and disable_overcurrent_protection called
\* while Disconnected end with the not-connected error.
C19_PassthroughsNeedConnection ==
    (/\ MainEnded({"set_voltage_range", "set_current_range",
                   "set_overvoltage_protection", "enable_overcurrent_protection",
                   "disable_overcurrent_protection"})
     /\ ~pre.connection) =>
        result["main"].status = "NotConnected"

\* C20: a disconnect whose close the transport does not refuse leaves the
\* connection state Disconnected, on a mock driver as on any other; called
\* while Disconnected it ends with the error of its connection check, has
\* closed nothing, and the state stays Disconnected.
C20_DisconnectEndsDisconnected ==
    (MainEnded({"disconnect"}) /\ result["main"].status # "VisaIOError") =>
        /\ ~connection
        /\ pre.connection => result["main"].status = "ok"
        /\ ~pre.connection =>
              /\ result["main"].status = "DisconnectFailed"
              /\ wire["main"] = <<>>
              /\ instrument = pre.instrument

\* C21: a failure of the transport inside a driver call (a write, a query,
\* an open or a close that raises) reaches the caller as one of the
\* driver's own PowerSupplyError classes, never as the pyvisa exception.
C21_TransportErrorsTyped ==
    \A t \in Threads :
        pc[t] = "idle" => result[t].status \notin {"VisaIOError", "InvalidSession"}

\* C22: a query that fails in the transport fails with
\* PowerSupplyTimeoutError exactly when the transport reported a response
\* timeout, and with the generic communication error for every other
\* transport failure, a pyvisa I/O error that is no timeout included.
C22_TimeoutOnlyOnTimeout ==
    \A t \in Threads :
        (/\ pc[t] = "idle"
         /\ cur[t].op \in QueryOps
         /\ result[t].text \in {"visa_timeout", "visa_io", "other", "invalid_session"}) =>
            result[t].status =
                (IF result[t].text = "visa_timeout" THEN "Timeout" ELSE "CommFailed")

\* C23: send_raw_command called while Disconnected or with an empty command
\* fails without any transport call; otherwise, on a driver that has a
\* transport, it hands the command to the transport in exactly one write,
\* as it is, without the "OUTPUT <module_id>; " frame.
C23_SendRaw ==
    MainEnded({"send_raw_command"}) =>
        IF ~pre.connection \/ cur["main"].text = ""
        THEN /\ result["main"].status =
                  (IF ~pre.connection THEN "NotConnected" ELSE "CommandEmpty")
             /\ wire["main"] = <<>>
        ELSE ~mock =>
               /\ Len(wire["main"]) = 1
               /\ wire["main"][1].kind = "write"
               /\ ~wire["main"][1].framed
               /\ wire["main"][1].module = ""
               /\ wire["main"][1].text = cur["main"].text

\* send_raw_command("ID?") has returned after its one write to an open
\* instrument.
C23_Witness ==
    /\ MainEnded({"send_raw_command"})
    /\ pre.connection /\ pre.instrument = "open"
    /\ cur["main"].text = "ID?"
    /\ result["main"].status = "ok"
    /\ Len(wire["main"]) = 1

\* C24: a send_raw_command that succeeds returns the reply the transport
\* delivered for the command: the transport was asked for the reply (a
\* query, or a read after the write), and the value returned is that reply,
\* not a fixed text.
C24_SendRawReturnsReply ==
    (MainEnded({"send_raw_command"}) /\ result["main"].status = "ok") =>
        /\ \E i \in 1..Len(wire["main"]) : wire["main"][i].kind \in {"query", "read"}
        /\ result["main"].text # "TODO: Implement response"

\* C25: no driver call other than connect retries: every call of every
\* thread makes at most one transport call, and a call that ended in a
\* failure of the transport has made exactly one.
C25_NoRetry ==
    \A t \in Threads :
        cur[t].op # "connect" =>
            /\ Len(wire[t]) <= 1
            /\ (/\ pc[t] = "idle"
                /\ \/ result[t].status \in {"VisaIOError", "InvalidSession"}
                   \/ result[t].text \in {"visa_timeout", "visa_io", "other",
                                          "invalid_session"}) =>
                  Len(wire[t]) = 1

\* set_voltage has ended with the error of its one failed write.
C25_Witness ==
    /\ MainEnded({"set_voltage"})
    /\ result["main"].status = "VisaIOError"
    /\ Len(wire["main"]) = 1
    /\ wire["main"][1].body = "VSET"

\* The transport call a step of thread t adds to the calls of its driver
\* method, other than send_raw_command.
Handed(t) ==
    /\ Len(wire'[t]) > Len(wire[t])
    /\ cur'[t].op # "send_raw_command"
    /\ wire'[t][Len(wire'[t])].kind \in {"write", "query"}

\* A bridge directive, written as it is by connect.
IsDirective(t, w) ==
    /\ ~w.framed
    /\ cur'[t].op = "connect"
    /\ \E i \in 1..Len(Directives) : w.text = Directives[i]

\* C26 as stated: every command or query a driver method other than
\* send_raw_command hands to the transport is framed with the instrument_id
\* given to the most recent connect call, or is a bridge directive of connect.
C26_FramedWithLatestConnectId ==
    [][\A t \in Threads :
          Handed(t) =>
              LET w == wire'[t][Len(wire'[t])]
              IN  \/ w.framed /\ w.module = given
                  \/ IsDirective(t, w)]_vars

\* C26: every command or query a driver method other than send_raw_command
\* hands to the transport is framed with module_id or is a bridge directive of
\* connect, and module_id changes only when a connect call passes the check of
\* its parameters, to the instrument_id given to that call, the most recent one.
C26_FramedWithAcceptedConnectId ==
    [][/\ \A t \in Threads :
             Handed(t) =>
                 LET w == wire'[t][Len(wire'[t])]
                 IN  \/ w.framed /\ w.module = module_id /\ w.module # "unset"
                     \/ IsDirective(t, w)
       /\ module_id' # module_id =>
             \E t \in Threads :
                 /\ pc[t] = "enter" /\ cur[t].op = "connect"
                 /\ ~ParamsInvalid(cur[t])
                 /\ module_id' = cur[t].id /\ cur[t].id = given]_vars

\* A framed command is on the wire after a connect call whose parameters
\* were refused left module_id as the earlier connect call set it.
C26_Witness ==
    /\ module_id # "unset" /\ given # module_id
    /\ pc["main"] = "idle" /\ cur["main"].op \in SetOps
    /\ wire["main"] # <<>>
    /\ wire["main"][1].framed /\ wire["main"][1].module = module_id

\* The writes among the first n transport calls of thread t's driver call.
WritesBefore(t, n) ==
    SelectSeq(SubSeq(wire[t], 1, n), LAMBDA w : w.kind = "write")

\* C27: the writes of a connect call are the bridge directives in program
\* order, each at most once and unframed; an ID? query of connect comes after
\* all four of them; and a connect that returned has written all four.
C27_DirectivesInOrder ==
    \A t \in Threads :
        cur[t].op = "connect" =>
            LET D == WritesBefore(t, Len(wire[t]))
            IN  /\ Len(D) <= Len(Directives)
                /\ \A i \in 1..Len(D) : ~D[i].framed /\ D[i].text = Directives[i]
                /\ \A i \in 1..Len(wire[t]) :
                      wire[t][i].kind = "query" =>
                          /\ wire[t][i].body = "ID?"
                          /\ Len(WritesBefore(t, i - 1)) = Len(Directives)
                /\ (pc[t] = "idle" /\ result[t].status = "ok") =>
                      Len(D) = Len(Directives)

\* connect has returned after the four directives and two ID? queries.
C27_Witness ==
    /\ MainEnded({"connect"})
    /\ result["main"].status = "ok"
    /\ Len(WritesBefore("main", Len(wire["main"]))) = 4
    /\ wire["main"][Len(wire["main"])].kind = "query"

\* C28: while connect is between its first transport call and its return,
\* no other thread makes a transport call or completes a driver call.
C28_ConnectExclusive ==
    [][(/\ cur["main"].op = "connect"
        /\ pc["main"] \in {"open", "dir", "dirw", "id", "idq"}) =>
            \A t \in Threads \ {"main"} :
                /\ Len(wire'[t]) <= Len(wire[t])
                /\ pc'[t] = "idle" => pc[t] = "idle"]_vars

\* Dictionary d is dictionary e with key k set to v and nothing else changed.
OnlyKeyChanged(d, e, k, v) ==
    /\ DOMAIN d = (DOMAIN e) \cup {k}
    /\ d[k] = v
    /\ \A x \in (DOMAIN e) \ {k} : d[x] = e[x]

\* C29: until set_voltage or set_current_limit has written its command the
\* cached setpoints are what they were before the call; a call that failed
\* leaves them so, and a call that succeeded has changed the setpoint of its
\* channel in its own dictionary and nothing else.
C29_SetpointAfterSend ==
    LET c == cur["main"]
    IN  c.op \in {"set_voltage", "set_current_limit"} =>
            /\ pc["main"] \in {"enter", "write"} => SetpointsKept
            /\ (pc["main"] = "idle" /\ result["main"].status # "ok") => SetpointsKept
            /\ (pc["main"] = "idle" /\ result["main"].status = "ok") =>
                  IF c.op = "set_voltage"
                  THEN /\ OnlyKeyChanged(set_voltages, pre.set_voltages, c.ch, c.val)
                       /\ set_currents = pre.set_currents
                  ELSE /\ OnlyKeyChanged(set_currents, pre.set_currents, c.ch, c.val)
                       /\ set_voltages = pre.set_voltages

\* set_voltage(1, 3.3) has failed in its write after set_current_limit
\* succeeded, and the cached voltage of channel 1 is still not 3.3.
C29_Witness ==
    /\ MainEnded({"set_voltage"})
    /\ result["main"].status = "VisaIOError"
    /\ cur["main"].ch = 1 /\ cur["main"].val = 330
    /\ set_voltages[1] # 330
    /\ \E x \in DOMAIN set_currents : set_currents[x] = 330

\* C30: an enable_output or disable_output call that failed in its transport
\* write leaves the enabled flags as they were before the call.
C30_FlagFollowsWrite ==
    (/\ MainEnded({"enable_output", "disable_output"})
     /\ result["main"].status \in {"VisaIOError", "InvalidSession"}) =>
        channels = pre.channels

\* C31: from the write of a set command to the end of its settle delay the
\* calling thread holds the lock, no other thread is inside a transport call,
\* and no other thread starts one.
C31_SettleInsideLock ==
    [][\A t \in Threads :
          (pc[t] \in {"write", "settle"} /\ cur[t].op \in SetOps) =>
              /\ lock.owner = t /\ lock.count >= 1
              /\ inFlight \subseteq {t}
              /\ \A u \in Threads \ {t} :
                    /\ Len(wire'[u]) <= Len(wire[u])
                    /\ u \notin inFlight']_vars

\* The main thread is in the settle delay of a set command it wrote while
\* the poller is waiting to enter a query.
C31_Witness ==
    /\ pc["main"] = "settle" /\ cur["main"].op \in SetOps
    /\ wire["main"] # <<>> /\ wire["main"][1].framed
    /\ pc["poller"] = "enter"

\* The poller thread starts a driver call in this step.
PollerCalls(op) ==
    /\ pc["poller"] = "idle" /\ pc'["poller"] = "enter"
    /\ cur'["poller"].op = op

\* C32: a sweep starts at channel 1 and goes from each channel to the next
\* up to 4; the call made on reaching a channel is get_output_voltage;
\* get_output_current is called only for the channel whose get_output_voltage
\* has just succeeded; and a sample is emitted exactly when get_output_current
\* has succeeded, for that channel, not yet emitted in the sweep, with the
\* two values the calls returned.
C32_SweepOrder ==
    [][/\ pollCh \in 0..NumChannels
       /\ pollCh' # pollCh =>
             /\ pollCh' = (IF ppc = "while" THEN 1 ELSE pollCh + 1)
             /\ PollerCalls("get_output_voltage")
             /\ cur'["poller"].ch = pollCh'
       /\ (ppc = "while" /\ ppc' = "voltage") => pollCh' = 1 /\ sweepPub' = {}
       /\ PollerCalls("get_output_voltage") => cur'["poller"].ch = pollCh'
       /\ PollerCalls("get_output_current") =>
             /\ cur["poller"].op = "get_output_voltage"
             /\ result["poller"].status = "ok"
             /\ cur'["poller"].ch = cur["poller"].ch
             /\ pollCh' = pollCh /\ cur["poller"].ch = pollCh
       /\ (ppc = "voltage" /\ ppc' # "voltage" /\ result["poller"].status # "ok") =>
             ~PollerCalls("get_output_current") /\ sweepPub' = sweepPub
       /\ (ppc = "current" /\ ppc' # "current") =>
             IF result["poller"].status = "ok"
             THEN /\ pollCh \notin sweepPub
                  /\ sweepPub' = sweepPub \cup {pollCh}
                  /\ emitted' = [channel |-> pollCh, voltage |-> voltage,
                                 current |-> result["poller"].val[1]]
             ELSE sweepPub' = sweepPub /\ emitted' = NoSample
       /\ sweepPub' # sweepPub =>
             \/ ppc = "while" /\ sweepPub' = {}
             \/ /\ ppc = "current" /\ cur["poller"].op = "get_output_current"
                /\ result["poller"].status = "ok"
       /\ (emitted' # NoSample /\ emitted' # emitted) =>
             ppc = "current" /\ result["poller"].status = "ok"]_vars

\* A sweep has reached its end after emitting the sample of channel 1 and
\* abandoning another channel.
C32_Witness ==
    /\ ppc = "sleep" /\ pollCh = NumChannels
    /\ 1 \in sweepPub
    /\ sweepErr # {}

\* C33: the enabled flags and the cached setpoints have exactly the keys
\* 1..4, and a set, enable, disable or measurement call for another channel
\* has failed without a transport call.
C33_FourChannelsOnly ==
    /\ DOMAIN channels = Channels
    /\ DOMAIN set_voltages = Channels
    /\ DOMAIN set_currents = Channels
    /\ (/\ MainEnded({"set_voltage", "set_current_limit", "enable_output",
                      "disable_output", "get_output_voltage", "get_output_current"})
        /\ cur["main"].ch \notin Channels) =>
           /\ result["main"].status # "ok"
           /\ wire["main"] = <<>>

\* The last k of the first n samples of a channel, as f numbers them.
LatestSamples(f(_), n, k) == [i \in 1..k |-> f(n - k + i)]

\* C34: each channel's two histories are equally long and at most 100
\* entries long, and they hold the latest samples delivered for the channel,
\* up to 100 of them, in the order of arrival.
C34_HistoryBounded ==
    \A c \in Channels :
        LET n == delivered[c]
            k == IF n < HistoryLimit THEN n ELSE HistoryLimit
        IN  /\ Len(voltage_history[c]) <= HistoryLimit
            /\ Len(voltage_history[c]) = Len(current_history[c])
            /\ voltage_history[c] = LatestSamples(SampleVoltage, n, k)
            /\ current_history[c] = LatestSamples(SampleCurrent, n, k)

\* Channel 1 has received its 101st sample: the first one has been removed.
C34_Witness ==
    /\ delivered[1] = HistoryLimit + 1
    /\ Len(voltage_history[1]) = HistoryLimit
    /\ voltage_history[1][1] = SampleVoltage(2)
    /\ current_history[1][HistoryLimit] = SampleCurrent(HistoryLimit + 1)

\* disconnect, the accessors and the measurements.
ReadOnlyOps == {"disconnect", "is_channel_enabled", "get_num_enabled_channels",
                "get_output_voltage", "get_output_current"}

\* is_channel_enabled(c) has returned what the flags say, and
\* get_num_enabled_channels the number of channels 1..4 whose flag is set.
AccessorsAgree ==
    /\ MainEnded({"get_num_enabled_channels"}) =>
          /\ result["main"].status = "ok"
          /\ result["main"].val =
                <<Cardinality({c \in 1..NumChannels : channels[c]})>>
    /\ MainEnded({"is_channel_enabled"}) =>
          /\ result["main"].status = "ok"
          /\ result["main"].val =
                <<IF cur["main"].ch \in 1..NumChannels /\ channels[cur["main"].ch]
                  THEN 1 ELSE 0>>

\* C35: no step of a disconnect, accessor or measurement call changes an
\* enabled flag or a cached setpoint, and get_num_enabled_channels returns
\* the number of channels 1..4 that is_channel_enabled reports enabled.
C35_ReadOnlyOperations ==
    /\ []AccessorsAgree
    /\ [][\A t \in Threads :
             (cur[t].op \in ReadOnlyOps /\ pc[t] # "idle" /\ pc'[t] # pc[t]) =>
                 UNCHANGED <<channels, set_voltages, set_currents>>]_vars

\* get_num_enabled_channels has returned 1 with one channel switched on and
\* left the flags as they were.
C35_Witness ==
    /\ MainEnded({"get_num_enabled_channels"})
    /\ result["main"].val = <<1>>
    /\ channels = pre.channels
    /\ \E c \in Channels : channels[c]

\* The levels of the lock thread t holds at its position: inside a step of
\* connect or the write of send_raw_command, or inside the transport call
\* or settle delay of another method.
HeldAt(t) ==
    IF pc[t] \in {"dirw", "idq"} THEN 1
    ELSE IF pc[t] = "write" /\ cur[t].op = "send_raw_command" THEN 1
    ELSE IF pc[t] \in {"write", "settle", "query"} THEN Depth(cur[t].op)
    ELSE 0

\* C36: a thread whose driver call has returned or raised holds no level of
\* the lock; the lock is held only by a thread inside a driver call, at the
\* depth of that call; so with no call in progress the lock is free, and a
\* thread waiting to enter its call can take it.
C36_LockReleased ==
    /\ \A t \in Threads : pc[t] = "idle" => lock.owner # t
    /\ (lock.owner = "none") = (lock.count = 0)
    /\ lock.owner # "none" =>
          /\ lock.owner \in Threads
          /\ lock.count = HeldAt(lock.owner)
    /\ (\A t \in Threads : pc[t] \in {"idle", "enter"}) =>
          /\ lock = FreeLock
          /\ \A t \in Threads : CanAcquire(t)

\* The poller's query has failed in the transport while the main thread
\* waits to enter its call, and the lock is free.
C36_Witness ==
    /\ pc["poller"] = "idle" /\ result["poller"].status = "Timeout"
    /\ wire["poller"] # <<>>
    /\ pc["main"] = "enter"
    /\ lock = FreeLock

====
